---- MODULE Spec2Model ----
(***************************************************************************)
(* Model of xonsh/man/troff.py: the TroffLexer (a PLY lexer wrapper) and   *)
(* the TroffParser that owns it.                                           *)
(*                                                                         *)
(* Text is a sequence of one-character strings.  Offsets (lexpos) are      *)
(* 0-based as in the Python code; the character at offset p of a text d is *)
(* d[p + 1].                                                               *)
(*                                                                         *)
(* The PLY master regular expression is compiled with re.VERBOSE only:     *)
(* '^' matches at offset 0 of the text, '$' at the end of the text or      *)
(* before a newline that ends the text, '.' does not match a newline.      *)
(* PLY tries function rules first (t_NEWLINE), then string rules by        *)
(* decreasing length of their regular expression.                          *)
(***************************************************************************)
EXTENDS Integers, Sequences, FiniteSets, TLC

\* ------------------------------------------------------------------ bounds
MaxPieces == 3        \* pieces per text in the tokenization specification
MaxParsePieces == 2   \* pieces per document in the life-cycle specification
MaxLineno == 3        \* input() without reset is not modelled above this line
MaxIterPieces == 3    \* pieces per text in the termination specification

\* -------------------------------------------------------------- characters
NL == "\n"
SP == " "
DOT == "."
BSL == "\\"
DQ == "\""
ETX == "ETX"          \* the control character \x03

\* --------------------------------------------------------- texts to lex
MacroCodes ==
  [TITLE |-> <<DOT, "T", "H">>,
   SECTION |-> <<DOT, "S", "H">>,
   SUBSECTION |-> <<DOT, "S", "S">>,
   PARAGRAPH |-> <<DOT, "P">>,
   HANGING_PARAGRAPH |-> <<DOT, "H", "P">>,
   INDENT_START |-> <<DOT, "R", "S">>,
   INDENT_END |-> <<DOT, "R", "E">>,
   ITALICS |-> <<DOT, "I">>,
   BOLD |-> <<DOT, "B">>]

MacroKinds == DOMAIN MacroCodes

CommentPrefix == <<DOT, BSL, DQ>>

Pieces ==
  {MacroCodes[k] : k \in MacroKinds}
    \cup {CommentPrefix, <<DOT>>, <<"a">>, <<SP>>, <<NL>>, <<ETX>>}

ParsePieces ==
  {MacroCodes["SECTION"], <<"a">>, <<NL>>, <<ETX>>}

RECURSIVE DocsUpTo(_, _)
DocsUpTo(pieces, n) ==
  IF n = 0 THEN {<<>>}
  ELSE LET prev == DocsUpTo(pieces, n - 1)
       IN prev \cup {d \o p : d \in prev, p \in pieces}

IterPieces ==
  {MacroCodes["PARAGRAPH"], <<DOT>>, <<"a">>, <<SP>>, <<NL>>}

ScanDocs == DocsUpTo(Pieces, MaxPieces)
IterDocs == DocsUpTo(IterPieces, MaxIterPieces)
ParseDocs == DocsUpTo(ParsePieces, MaxParsePieces)

\* ------------------------------------------------------------------ tokens
NoToken == [type |-> "None", value |-> <<>>, lineno |-> 0, lexpos |-> 0]

MakeToken(type, value, line, pos) ==
  [type |-> type, value |-> value, lineno |-> line, lexpos |-> pos]

tokens ==
  {"NEWLINE", "COMMENT", "ENDMARKER", "SPACE",
   "TITLE", "SECTION", "SUBSECTION", "PARAGRAPH", "HANGING_PARAGRAPH",
   "INDENT_START", "INDENT_END",
   "WORD", "ITALICS", "BOLD"}

\* ------------------------------------------------------- regular expressions
\* Length of the longest run, from offset i, of characters in cs (inside)
\* or not in cs (~inside).
RECURSIVE Run(_, _, _, _)
Run(data, i, cs, inside) ==
  IF i < Len(data) /\ ((data[i + 1] \in cs) <=> inside)
  THEN 1 + Run(data, i + 1, cs, inside)
  ELSE 0

\* data has lit at offset pos
HasAt(data, pos, lit) ==
  /\ pos + Len(lit) <= Len(data)
  /\ \A j \in 1..Len(lit) : data[pos + j] = lit[j]

Caret_Anywhere(data, pos) == TRUE

\* '^' in a pattern compiled without re.MULTILINE
Caret(data, pos) == pos = 0

\* '$' in a pattern compiled without re.MULTILINE
Dollar(data, pos) ==
  \/ pos = Len(data)
  \/ pos = Len(data) - 1 /\ data[pos + 1] = NL

\* Each t_X_re gives the length matched by the pattern of rule t_X at offset
\* pos, 0 for no match.
t_NEWLINE_re(data, pos) == Run(data, pos, {NL}, TRUE)

t_COMMENT_re(data, pos) ==
  IF Caret(data, pos) /\ HasAt(data, pos, CommentPrefix)
  THEN LET rest == Run(data, pos + 3, {NL}, FALSE)
       IN IF Dollar(data, pos + 3 + rest) THEN 3 + rest ELSE 0
  ELSE 0

t_ENDMARKER_re(data, pos) == IF HasAt(data, pos, <<ETX>>) THEN 1 ELSE 0

t_SPACE_re(data, pos) == Run(data, pos, {SP}, TRUE)

t_MACRO_re(kind, data, pos) ==
  IF Caret(data, pos) /\ HasAt(data, pos, MacroCodes[kind])
  THEN Len(MacroCodes[kind])
  ELSE 0

t_WORD_re(data, pos) ==
  IF /\ Caret(data, pos)
     /\ pos < Len(data)
     /\ data[pos + 1] # DOT
     /\ Run(data, pos + 1, {SP}, FALSE) >= 1
  THEN 1 + Run(data, pos + 1, {SP}, FALSE)
  ELSE 0

\* Rule order of the master regular expression.
RuleOrder ==
  <<"NEWLINE", "WORD", "COMMENT",
    "HANGING_PARAGRAPH", "INDENT_END", "INDENT_START",
    "SECTION", "SUBSECTION", "TITLE",
    "BOLD", "ENDMARKER", "ITALICS", "PARAGRAPH", "SPACE">>

MatchLen(rule, data, pos) ==
  CASE rule = "NEWLINE" -> t_NEWLINE_re(data, pos)
    [] rule = "WORD" -> t_WORD_re(data, pos)
    [] rule = "COMMENT" -> t_COMMENT_re(data, pos)
    [] rule = "ENDMARKER" -> t_ENDMARKER_re(data, pos)
    [] rule = "SPACE" -> t_SPACE_re(data, pos)
    [] OTHER -> t_MACRO_re(rule, data, pos)

\* Index in RuleOrder of the first rule that matches at pos, 0 for none.
FirstMatch(data, pos) ==
  LET hits == {i \in 1..Len(RuleOrder) : MatchLen(RuleOrder[i], data, pos) > 0}
  IN IF hits = {} THEN 0
     ELSE CHOOSE i \in hits : \A j \in hits : i <= j

\* ------------------------------------------------------------- TroffLexer
\* str.rfind('\n', 0, pos): the highest offset below pos holding a newline,
\* -1 when there is none.
rfindNL(data, pos) ==
  LET nls == {i \in 0..(pos - 1) : i < Len(data) /\ data[i + 1] = NL}
  IN IF nls = {} THEN -1
     ELSE CHOOSE i \in nls : \A j \in nls : j <= i

token_col_FromStart(data, pos) ==
  IF rfindNL(data, pos) = -1 THEN pos ELSE pos - rfindNL(data, pos)

\* TroffLexer.token_col
token_col(data, pos) == pos - rfindNL(data, pos)

t_NEWLINE_ByOne(line, value) == line + 1

\* t_NEWLINE: the line counter after a NEWLINE token of the given text
t_NEWLINE(line, value) == line + Len(value)

t_error_RawOffset(data, pos, line) ==
  [report |-> [ch |-> data[pos + 1], line |-> line, col |-> pos],
   skip |-> 1]

t_error_SkipTwo(data, pos, line) ==
  [report |-> [ch |-> data[pos + 1], line |-> line, col |-> token_col(data, pos)],
   skip |-> 2]

\* t_error / _error: the call of errfunc(msg, line, col) and the skip
t_error(data, pos, line) ==
  [report |-> [ch |-> data[pos + 1], line |-> line, col |-> token_col(data, pos)],
   skip |-> 1]

RECURSIVE Scan_EndOffByOne(_, _, _, _)
Scan_EndOffByOne(data, pos, line, reports) ==
  IF pos >= Len(data)
  THEN [tok |-> NoToken, pos |-> pos + 1, line |-> line, errs |-> reports]
  ELSE LET r == FirstMatch(data, pos)
       IN IF r = 0
          THEN LET e == t_error(data, pos, line)
               IN Scan_EndOffByOne(data, pos + e.skip, line,
                                   Append(reports, e.report))
          ELSE LET kind == RuleOrder[r]
                   n == MatchLen(kind, data, pos)
                   value == SubSeq(data, pos + 1, pos + n)
               IN [tok |-> MakeToken(kind, value, line, pos),
                   pos |-> IF n > 1 THEN pos + n - 1 ELSE pos + n,
                   line |-> IF kind = "NEWLINE" THEN t_NEWLINE(line, value)
                            ELSE line,
                   errs |-> reports]

\* lexer.token() of PLY, from offset pos with line counter line: the token
\* returned (NoToken for None), the new offset and line counter, and the
\* errfunc calls made on the way.
RECURSIVE Scan(_, _, _, _)
Scan(data, pos, line, reports) ==
  IF pos >= Len(data)
  THEN [tok |-> NoToken, pos |-> pos + 1, line |-> line, errs |-> reports]
  ELSE LET r == FirstMatch(data, pos)
       IN IF r = 0
          THEN LET e == t_error(data, pos, line)
               IN Scan(data, pos + e.skip, line, Append(reports, e.report))
          ELSE LET kind == RuleOrder[r]
                   n == MatchLen(kind, data, pos)
                   value == SubSeq(data, pos + 1, pos + n)
               IN [tok |-> MakeToken(kind, value, line, pos),
                   pos |-> pos + n,
                   line |-> IF kind = "NEWLINE" THEN t_NEWLINE(line, value)
                            ELSE line,
                   errs |-> reports]

\* TroffLexer.__iter__ on a lexer at offset pos and line counter line: the
\* tokens up to the end of the text
RECURSIVE Tokenize(_, _, _)
Tokenize(data, pos, line) ==
  LET r == Scan(data, pos, line, <<>>)
  IN IF r.tok = NoToken THEN <<>>
     ELSE <<r.tok>> \o Tokenize(data, r.pos, r.line)

\* ------------------------------------------------------------------- state
VARIABLES
  built,     \* TroffLexer.lexer is not None
  lineno,    \* TroffLexer.lexer.lineno
  last,      \* TroffLexer.last
  hasdata,   \* lexer.lexdata is not None
  lexdata,   \* lexer.lexdata
  lexpos,    \* lexer.lexpos
  mode,      \* "idle", or "parsing" while TroffParser.parse is running
  raised,    \* exception raised by the last call, "none" if it returned
  errloc,    \* (TroffParser.lineno, TroffParser.col) read at a syntax error
  toks,      \* history: tokens returned since the last input()
  errs,      \* history: errfunc calls since the last input()
  eof,       \* history: token() has returned None since the last input()
  clean,     \* history: the pass began at line 1 and was not reset since
  calls,     \* history: number of token() calls since the last input()
  before     \* history: TroffLexer.lineno when the running parse was called

lexvars == <<built, lineno, last, hasdata, lexdata, lexpos>>
histvars == <<toks, errs, eof, clean, calls, before>>
vars == <<built, lineno, last, hasdata, lexdata, lexpos, mode, raised, errloc,
          toks, errs, eof, clean, calls, before>>

NoLoc == [line |-> -1, col |-> -1]

\* TroffLexer.__init__ and TroffParser.__init__: the lexer is created, not built
Init ==
  /\ built = FALSE
  /\ lineno = 0
  /\ last = NoToken
  /\ hasdata = FALSE
  /\ lexdata = <<>>
  /\ lexpos = 0
  /\ mode = "idle"
  /\ raised = "none"
  /\ errloc = NoLoc
  /\ toks = <<>>
  /\ errs = <<>>
  /\ eof = FALSE
  /\ clean = FALSE
  /\ calls = 0
  /\ before = 0

\* TroffLexer.lineno (property): None, here 0, while the lexer is not built
LexerLineno == IF built THEN lineno ELSE 0

\* TroffParser._yacc_lookahead_token
yacc_lookahead_token == last

\* TroffParser.lineno (property)
ParserLineno == IF last = NoToken THEN 0 ELSE last.lineno

\* TroffParser.token_col
ParserTokenCol(t) == t.lexpos

ParserCol_DefaultZero == IF last # NoToken THEN ParserTokenCol(last) ELSE 0

\* TroffParser.col (property), through _yacc_lookahead_token
ParserCol == IF last # NoToken THEN ParserTokenCol(last) ELSE 1

\* ----------------------------------------------------------------- actions
ResetFieldsKeepLine ==
  /\ lineno' = lineno
  /\ last' = NoToken

\* The two assignments of TroffLexer.reset
ResetFields ==
  /\ lineno' = 1
  /\ last' = NoToken

\* lexer.input(s) of PLY, and the start of a new history
InputFields(s) ==
  /\ hasdata' = TRUE
  /\ lexdata' = s
  /\ lexpos' = 0
  /\ toks' = <<>>
  /\ errs' = <<>>
  /\ eof' = FALSE
  /\ calls' = 0

TokenFields_KeepLastAtEnd ==
  LET r == Scan(lexdata, lexpos, lineno, <<>>)
  IN /\ lexpos' = r.pos
     /\ lineno' = r.line
     /\ last' = IF r.tok = NoToken THEN last ELSE r.tok
     /\ errs' = errs \o r.errs
     /\ toks' = IF r.tok = NoToken THEN toks ELSE Append(toks, r.tok)
     /\ eof' = (r.tok = NoToken)
     /\ calls' = calls + 1
     /\ UNCHANGED <<built, hasdata, lexdata, clean, before>>

\* TroffLexer.token: self.last = self.lexer.token()
TokenFields ==
  LET r == Scan(lexdata, lexpos, lineno, <<>>)
  IN /\ lexpos' = r.pos
     /\ lineno' = r.line
     /\ last' = r.tok
     /\ errs' = errs \o r.errs
     /\ toks' = IF r.tok = NoToken THEN toks ELSE Append(toks, r.tok)
     /\ eof' = (r.tok = NoToken)
     /\ calls' = calls + 1
     /\ UNCHANGED <<built, hasdata, lexdata, clean, before>>

\* TroffLexer.build(): a new PLY lexer, then reset
Build ==
  /\ mode = "idle"
  /\ built' = TRUE
  /\ hasdata' = FALSE
  /\ lexdata' = <<>>
  /\ lexpos' = 0
  /\ ResetFields
  /\ raised' = "none"
  /\ toks' = <<>>
  /\ errs' = <<>>
  /\ eof' = FALSE
  /\ calls' = 0
  /\ clean' = FALSE
  /\ errloc' = NoLoc
  /\ before' = 0
  /\ UNCHANGED mode

\* TroffParser.reset(), which is TroffLexer.reset() on the owned lexer
Reset ==
  /\ mode = "idle"
  /\ built
  /\ ResetFields
  /\ clean' = (hasdata /\ lexpos = 0)
  /\ raised' = "none"
  /\ errloc' = NoLoc
  /\ UNCHANGED <<built, hasdata, lexdata, lexpos, mode,
                 toks, errs, eof, calls, before>>

\* TroffLexer.input(s)
Input(s) ==
  /\ mode = "idle"
  /\ built
  /\ lineno <= MaxLineno
  /\ InputFields(s)
  /\ clean' = (lineno = 1)
  /\ raised' = "none"
  /\ errloc' = NoLoc
  /\ before' = 0
  /\ UNCHANGED <<built, lineno, last, mode>>

\* TroffLexer.token(), called by a user of the lexer (as __iter__ does)
Token ==
  /\ mode = "idle"
  /\ built
  /\ hasdata
  /\ lexpos <= Len(lexdata) + 1
  /\ TokenFields
  /\ raised' = "none"
  /\ UNCHANGED <<mode, errloc>>

\* TroffParser.parse(s) up to the first token request: reset, then
\* parser.parse(input=s, lexer=self.lexer) gives s to the lexer
Parse(s) ==
  /\ mode = "idle"
  /\ IF built
     THEN /\ ResetFields
          /\ InputFields(s)
          /\ clean' = TRUE
          /\ mode' = "parsing"
          /\ raised' = "none"
          /\ errloc' = NoLoc
          /\ before' = LexerLineno
          /\ UNCHANGED built
     ELSE /\ raised' = "AttributeError"
          /\ UNCHANGED <<lexvars, histvars, mode, errloc>>

\* The yacc engine asks the lexer for the next lookahead token
ParseToken ==
  /\ mode = "parsing"
  /\ ~eof
  /\ TokenFields
  /\ UNCHANGED <<mode, raised, errloc>>

\* The yacc engine finds no action for the lookahead: the position of the
\* error is TroffParser.lineno and TroffParser.col, and parse ends
ParseError ==
  /\ mode = "parsing"
  /\ calls >= 1
  /\ errloc' = [line |-> ParserLineno, col |-> ParserCol]
  /\ raised' = "SyntaxError"
  /\ mode' = "idle"
  /\ UNCHANGED <<lexvars, histvars>>

\* The yacc engine accepts at the end of the token stream: parse returns
ParseReturn ==
  /\ mode = "parsing"
  /\ eof
  /\ mode' = "idle"
  /\ raised' = "none"
  /\ UNCHANGED <<lexvars, histvars, errloc>>

Next ==
  \/ Build
  \/ Reset
  \/ \E s \in ParseDocs : Input(s)
  \/ Token
  \/ \E s \in ParseDocs : Parse(s)
  \/ ParseToken
  \/ ParseError
  \/ ParseReturn

Spec == Init /\ [][Next]_vars

\* Tokenization of one text by a built and reset lexer: build(), input(s),
\* then token() until the end of the text.
InitScan ==
  /\ built = TRUE
  /\ lineno = 1
  /\ last = NoToken
  /\ hasdata = TRUE
  /\ lexdata \in ScanDocs
  /\ lexpos = 0
  /\ mode = "idle"
  /\ raised = "none"
  /\ errloc = NoLoc
  /\ toks = <<>>
  /\ errs = <<>>
  /\ eof = FALSE
  /\ clean = TRUE
  /\ calls = 0
  /\ before = 0

NextScan == Token

SpecScan == InitScan /\ [][NextScan]_vars

\* One pass over one text by a user of the lexer: build(), then input(s),
\* then TroffLexer.__iter__, which calls token() again for as long as the
\* last call returned a token.  The caller does not stop in between.
InitIter ==
  /\ built = TRUE
  /\ lineno = 1
  /\ last = NoToken
  /\ hasdata = FALSE
  /\ lexdata = <<>>
  /\ lexpos = 0
  /\ mode = "idle"
  /\ raised = "none"
  /\ errloc = NoLoc
  /\ toks = <<>>
  /\ errs = <<>>
  /\ eof = FALSE
  /\ clean = FALSE
  /\ calls = 0
  /\ before = 0

FirstInput(s) == ~hasdata /\ Input(s)

NextIter ==
  \/ \E s \in IterDocs : FirstInput(s)
  \/ Token

SpecIter == InitIter /\ [][NextIter]_vars /\ WF_vars(NextIter)

\* ------------------------------------------------------------ properties
\* The part of lexdata already consumed (lexpos is Len + 1 after the end).
Consumed == IF lexpos > Len(lexdata) THEN Len(lexdata) ELSE lexpos

\* C1: a parse call starts with the lexer's line counter at 1 and no last
\* token, whatever was parsed or tokenized before; the tokens handed to the
\* parser are those a fresh lexer (line 1, offset 0) gives for the same
\* document, and the first of them is on line 1.
C1_ParseStartsReset ==
  mode = "parsing" =>
    /\ calls = 0 => (lineno = 1 /\ last = NoToken)
    /\ LET fresh == Tokenize(lexdata, 0, 1)
       IN /\ Len(toks) <= Len(fresh)
          /\ \A i \in 1..Len(toks) : toks[i] = fresh[i]
    /\ toks # <<>> => toks[1].lineno = 1

\* A second document is being parsed on a lexer whose line counter had
\* been advanced by earlier documents, and its first token is on line 1.
C1_Witness ==
  /\ mode = "parsing"
  /\ before > 2
  /\ toks # <<>>
  /\ toks[1].lineno = 1

\* ---------------------------------------------------------------- C2 - C5
\* The concatenation of the texts of a sequence of tokens.
RECURSIVE JoinValues(_)
JoinValues(ts) ==
  IF ts = <<>> THEN <<>> ELSE Head(ts).value \o JoinValues(Tail(ts))

\* Offset p is the start of a physical line of data.
LineStartAt(data, p) == p = 0 \/ data[p] = NL

\* The macro kinds whose code stands at offset p.
MacrosAt(data, p) == {k \in MacroKinds : HasAt(data, p, MacroCodes[k])}

\* Number of newline characters among the first n characters of data.
CountNL(data, n) == Cardinality({i \in 1..n : data[i] = NL})

\* A text made only of macro lines (a macro code at the start of a line,
\* followed by a space, a newline or the end) and of words and spaces.
ValidText(data) ==
  \A p \in 0..(Len(data) - 1) :
    /\ data[p + 1] \notin {ETX, BSL, DQ}
    /\ data[p + 1] = DOT =>
         /\ LineStartAt(data, p)
         /\ \E k \in MacrosAt(data, p) :
              LET q == p + Len(MacroCodes[k])
              IN q = Len(data) \/ data[q + 1] \in {SP, NL}

\* C2: once a valid text has been tokenized to its end, the texts of the
\* tokens, concatenated in order, are the text.
C2_RoundTrip ==
  (eof /\ clean /\ ValidText(lexdata)) => JoinValues(toks) = lexdata

\* C3: a macro code at the start of any physical line has been emitted, once
\* the scan is past it, as one token of its kind; a comment prefix at the
\* start of any physical line as one COMMENT token up to the end of the line.
C3_MacroOnAnyLine ==
  \A p \in 0..(Consumed - 1) :
    LineStartAt(lexdata, p) =>
      /\ \A k \in MacrosAt(lexdata, p) :
           \E i \in 1..Len(toks) :
             /\ toks[i].lexpos = p
             /\ toks[i].type = k
             /\ toks[i].value = MacroCodes[k]
      /\ HasAt(lexdata, p, CommentPrefix) =>
           \E i \in 1..Len(toks) :
             /\ toks[i].lexpos = p
             /\ toks[i].type = "COMMENT"
             /\ Len(toks[i].value) = 3 + Run(lexdata, p + 3, {NL}, FALSE)

\* C4: when the lexer has signalled the end of the stream to the parser, the
\* tokens it handed over hold exactly one ENDMARKER, and it is the last one.
C4_OneEndmarker ==
  (mode = "parsing" /\ eof) =>
    /\ Cardinality({i \in 1..Len(toks) : toks[i].type = "ENDMARKER"}) = 1
    /\ toks[Len(toks)].type = "ENDMARKER"

\* C5: in a pass started after reset, the line counter is 1 plus the number
\* of newlines consumed, and every token records 1 plus the number of
\* newlines before its start.
C5_LineCounter ==
  clean =>
    /\ lineno = 1 + CountNL(lexdata, Consumed)
    /\ \A i \in 1..Len(toks) :
         toks[i].lineno = 1 + CountNL(lexdata, toks[i].lexpos)

\* --------------------------------------------------------------- C6 - C10
\* C6: a token() call that returns a NEWLINE token of k newline characters
\* (k >= 1) leaves the line counter k higher than it found it, and the
\* token records the line counter as the call found it.
C6_NewlineAdvance ==
  [][(calls' = calls + 1 /\ last'.type = "NEWLINE") =>
       /\ Len(last'.value) >= 1
       /\ \A j \in 1..Len(last'.value) : last'.value[j] = NL
       /\ lineno' = lineno + Len(last'.value)
       /\ last'.lineno = lineno]_vars

\* A NEWLINE token of two newline characters has been returned from inside
\* the text, and the line counter is two past the token's line.
C6_Witness ==
  /\ last.type = "NEWLINE"
  /\ Len(last.value) = 2
  /\ last.lexpos > 0
  /\ lineno = last.lineno + 2

\* The column of offset p: p minus the offset of the nearest newline before
\* p, the first character of a line being in column 1.
ColumnOf(data, p) ==
  LET starts == {j \in 0..p : \A i \in j..(p - 1) : data[i + 1] # NL}
  IN 1 + p - (CHOOSE j \in starts : \A h \in starts : j <= h)

\* Total length of the texts of a sequence of tokens.
RECURSIVE SumLen(_)
SumLen(ts) == IF ts = <<>> THEN 0 ELSE Len(Head(ts).value) + SumLen(Tail(ts))

\* One token() call that starts inside the text and skips k characters:
\* they are the k characters at the scan position, no rule matches at any of
\* them, each is reported once, in order, with the character, the line
\* counter and its column; the scan resumes right after them; the call
\* raises nothing and the skip leaves the line counter alone.
C7_Call ==
  (calls' = calls + 1 /\ lexpos <= Len(lexdata)) =>
    LET k == Len(errs') - Len(errs)
    IN /\ k >= 0
       /\ SubSeq(errs', 1, Len(errs)) = errs
       /\ lexpos + k <= Len(lexdata)
       /\ \A i \in 1..k :
            /\ FirstMatch(lexdata, lexpos + i - 1) = 0
            /\ errs'[Len(errs) + i] =
                 [ch |-> lexdata[lexpos + i],
                  line |-> lineno,
                  col |-> ColumnOf(lexdata, lexpos + i - 1)]
       /\ IF last' = NoToken
          THEN lexpos + k = Len(lexdata) /\ lineno' = lineno
          ELSE /\ last'.lexpos = lexpos + k
               /\ last'.lineno = lineno
               /\ FirstMatch(lexdata, lexpos + k) # 0
       /\ raised' = "none"

\* C7: every character at which no rule matches is reported once to errfunc
\* with the character, the line and its column, and skipped alone; scanning
\* goes on; the number of errfunc calls is the number of characters that no
\* token covers.
C7_ErrorSkip ==
  /\ [](Len(errs) + SumLen(toks) = Consumed)
  /\ [][C7_Call]_vars

\* Two characters have been skipped on a line after the first, and a token
\* has been returned after them.
C7_Witness ==
  /\ Len(errs) >= 2
  /\ errs[Len(errs)].line >= 2
  /\ errs[Len(errs)].col >= 2
  /\ last # NoToken
  /\ last.lexpos > 0

\* C8: at a syntax error with a lookahead token, the position the parser
\* derives is the token's line and the token's column as TroffLexer.token_col
\* computes it.
C8_ErrorPosition ==
  (raised = "SyntaxError" /\ last # NoToken) =>
    errloc = [line |-> last.lineno, col |-> token_col(lexdata, last.lexpos)]

\* C9: no WORD token holds a space, and none begins with a dot.
C9_WordShape ==
  \A i \in 1..Len(toks) :
    toks[i].type = "WORD" =>
      /\ \A j \in 1..Len(toks[i].value) : toks[i].value[j] # SP
      /\ toks[i].value[1] # DOT

\* C10: a dot that starts a physical line, with no macro code and no comment
\* prefix there, is, once the scan is past it, not the start of a WORD token
\* and not inside any token: it was reported to errfunc and skipped.
C10_UnknownDot ==
  \A p \in 0..(Consumed - 1) :
    (/\ LineStartAt(lexdata, p)
     /\ lexdata[p + 1] = DOT
     /\ MacrosAt(lexdata, p) = {}
     /\ ~HasAt(lexdata, p, CommentPrefix)) =>
      /\ \A i \in 1..Len(toks) :
           ~(toks[i].lexpos <= p /\ p < toks[i].lexpos + Len(toks[i].value))
      /\ \E e \in 1..Len(errs) : errs[e].ch = DOT /\ errs[e].col = 1

\* -------------------------------------------------------------- C11 - C17
\* C11: every macro token and every COMMENT token starts at offset 0 or
\* right after a newline, and its text is the macro code (the comment
\* prefix); a macro code in the middle of a line gives no macro token.
C11_MacroAtLineStart ==
  \A i \in 1..Len(toks) :
    /\ toks[i].type \in MacroKinds =>
         /\ LineStartAt(lexdata, toks[i].lexpos)
         /\ toks[i].value = MacroCodes[toks[i].type]
    /\ toks[i].type = "COMMENT" =>
         /\ LineStartAt(lexdata, toks[i].lexpos)
         /\ HasAt(toks[i].value, 0, CommentPrefix)

\* A macro token has been emitted at the start of the text and the scan has
\* gone past a macro code that stands in the middle of the same line.
C11_Witness ==
  /\ toks # <<>>
  /\ toks[1].type \in MacroKinds
  /\ \E p \in 1..(Consumed - 1) :
       /\ ~LineStartAt(lexdata, p)
       /\ MacrosAt(lexdata, p) # {}
       /\ Consumed >= p + 2

\* C12: after every token() call the last-token record, which is what the
\* parser's lookahead accessor returns, is the value the call returned: the
\* newest token, or none when the call signalled the end of the stream;
\* characters skipped in the call leave no trace in the record.
C12_LastIsReturned ==
  [][(calls' = calls + 1) =>
       /\ yacc_lookahead_token' = last'
       /\ IF eof'
          THEN last' = NoToken /\ toks' = toks
          ELSE /\ Len(toks') = Len(toks) + 1
               /\ last' = toks'[Len(toks')]
               /\ last'.type \in tokens]_vars

\* During a parse the lexer has returned a token, then skipped a character
\* and signalled the end of the stream, and the record is none again.
C12_Witness ==
  /\ mode = "parsing"
  /\ eof
  /\ toks # <<>>
  /\ errs # <<>>
  /\ yacc_lookahead_token = NoToken

\* C13: with no lookahead token - a parse has reset the lexer and asked for
\* no token yet, or the lexer has signalled the end of the stream - the
\* parser's position is line 0, column 1, and so is the position of a syntax
\* error found at the end of the stream.
C13_DefaultPosition ==
  /\ ((mode = "parsing" /\ calls = 0) \/ eof) =>
       /\ yacc_lookahead_token = NoToken
       /\ ParserLineno = 0
       /\ ParserCol = 1
  /\ (raised = "SyntaxError" /\ eof) => errloc = [line |-> 0, col |-> 1]

\* A syntax error was found at the end of a stream that held tokens on
\* several lines, and its position is line 0, column 1.
C13_Witness ==
  /\ raised = "SyntaxError"
  /\ eof
  /\ Len(toks) >= 2
  /\ toks[Len(toks)].lineno >= 2
  /\ errloc = [line |-> 0, col |-> 1]

\* C14: the tokens of a pass come in source order and do not overlap: each
\* token has a text of one character or more that is the text found at its
\* offset, and the next token starts at or after the end of that text.
C14_OrderedNoOverlap ==
  /\ \A i \in 1..Len(toks) :
       /\ Len(toks[i].value) >= 1
       /\ toks[i].lexpos + Len(toks[i].value) <= Consumed
       /\ toks[i].value =
            SubSeq(lexdata, toks[i].lexpos + 1,
                   toks[i].lexpos + Len(toks[i].value))
  /\ \A i \in 1..(Len(toks) - 1) :
       toks[i + 1].lexpos >= toks[i].lexpos + Len(toks[i].value)

\* Two tokens have been returned, the first of several characters, the
\* second after a character that was skipped between them.
C14_Witness ==
  /\ Len(toks) = 2
  /\ Len(toks[1].value) >= 2
  /\ toks[2].lexpos = toks[1].lexpos + Len(toks[1].value) + 1
  /\ Len(errs) = 1

\* C15: tokenization of a text ends: every token() call moves the scan
\* position forward, a call that returns a token or skips characters uses up
\* at least one character, and the lexer comes to signal the end of the
\* stream; when it does, the whole text has been consumed, every character
\* by one token or by one skip.
C15_Terminates ==
  /\ <>eof
  /\ [][(calls' = calls + 1) => lexpos' > lexpos]_vars
  /\ [](~eof => calls <= Consumed)
  /\ [](eof => /\ Consumed = Len(lexdata)
               /\ SumLen(toks) + Len(errs) = Len(lexdata)
               /\ calls <= Len(lexdata) + 2)

\* The end of the stream has been signalled for a text in which three
\* characters were skipped and a token was returned.
C15_Witness ==
  /\ eof
  /\ Len(errs) >= 3
  /\ toks # <<>>
  /\ Consumed = Len(lexdata)

\* The offsets below p that hold a newline.
NewlinesBefore(data, p) == {i \in 0..(p - 1) : data[i + 1] = NL}

\* p minus the offset of the nearest newline before p, and p minus 0 when
\* there is none.
ColumnFromStart(data, p) ==
  LET nls == NewlinesBefore(data, p)
  IN IF nls = {} THEN p - 0
     ELSE p - (CHOOSE i \in nls : \A j \in nls : j <= i)

\* C16 as stated: for every token, token_col is its offset minus the offset
\* of the nearest newline before it, and its offset minus 0 when no newline
\* precedes it.
C16_ColumnFromStart ==
  \A i \in 1..Len(toks) :
    token_col(lexdata, toks[i].lexpos) = ColumnFromStart(lexdata, toks[i].lexpos)

\* C16 amended: for every token, token_col is its offset minus the offset of
\* the nearest newline before it, and its offset plus 1 when no newline
\* precedes it: on every line the first character is in column 1.
C16_ColumnOneBased ==
  \A i \in 1..Len(toks) :
    LET p == toks[i].lexpos
        nls == NewlinesBefore(lexdata, p)
    IN /\ token_col(lexdata, p) =
            (IF nls = {} THEN p + 1
             ELSE p - (CHOOSE h \in nls : \A j \in nls : j <= h))
       /\ token_col(lexdata, p) = ColumnOf(lexdata, p)
       /\ LineStartAt(lexdata, p) => token_col(lexdata, p) = 1

\* Tokens have been returned from inside the first line and from a later
\* line.
C16_Witness ==
  /\ \E i \in 1..Len(toks) :
       /\ toks[i].lexpos > 0
       /\ NewlinesBefore(lexdata, toks[i].lexpos) = {}
  /\ \E i \in 1..Len(toks) :
       /\ NewlinesBefore(lexdata, toks[i].lexpos) # {}
       /\ token_col(lexdata, toks[i].lexpos) >= 1

\* C17: parse finds the owned lexer built whenever it resets it, the first
\* parse of a parser that was only constructed included: no parse call ends
\* in reset with the AttributeError of an unbuilt lexer.
C17_ParseFindsLexerBuilt == raised # "AttributeError"

====
